---------------------------- MODULE Spec2Model ----------------------------
(***************************************************************************)
(* A model of MS::Internal::Text::TextInterface::FontFile                  *)
(* (src/wpf/src/Core/cpp/dwritewrapper/fontfile.cpp): the managed wrapper  *)
(* around one native IDWriteFontFile reference.                            *)
(*                                                                         *)
(* One handle is modelled.  Every public operation is a sequence of steps, *)
(* one step per native call, driven by the position pc; in the             *)
(* specification Spec the operations on the handle are serialised: a new   *)
(* operation starts only when pc = "idle".  The native font file, its      *)
(* loader and the local-file loader are the environment: each native call  *)
(* answers with a status and output chosen nondeterministically.           *)
(*                                                                         *)
(* Four further specifications vary the setting: SpecGC adds a collector   *)
(* that may reclaim the handle, SpecRace a second thread that disposes the *)
(* handle while an operation is in flight, SpecTwo runs Analyze on two     *)
(* handles at once, and SpecRI applies ReleaseInterface on its own.        *)
(***************************************************************************)
EXTENDS Integers, Sequences, FiniteSets

VARIABLES
    fontFile,          \* the member _fontFile: "nullptr" or "wrapper"
    fontFileReleases,  \* native Release calls made on the wrapped IDWriteFontFile
    loaderRefs,        \* references held on the IDWriteFontFileLoader of GetLoader
    localRefs,         \* references held on the IDWriteLocalFontFileLoader
    heap,              \* WCHAR buffers allocated by new[] and not yet freed
    pc,                \* position of the calling thread
    op,                \* the operation in flight, or the last one that ended
    outcome,           \* how that operation ended: none/returned/raised/failfast/crash
    value,             \* what it returned
    err,               \* the exception it raised
    log,               \* the native calls it has made, in order
    loc,               \* the locals of the operation in flight
    pending,           \* GetUriPath: the return or throw waiting for the finally block
    out,               \* Analyze: the caller's variables bound to the out parameters
    before,            \* Analyze: their values when the call began
    nativePath,        \* the path the local-file loader holds for the reference key
    guid,              \* the static _guidForIDWriteLocalFontFileLoader
    collected,         \* the collector has reclaimed the wrapper of the handle
    race,              \* a second thread on the handle: what it has interleaved
    two,               \* two handles on different font files, each in Analyze
    ri                 \* a slot handed to ReleaseInterface and its object

vars == <<fontFile, fontFileReleases, loaderRefs, localRefs, heap, pc, op,
          outcome, value, err, log, loc, pending, out, before, nativePath,
          guid, collected, race, two, ri>>

(***************************************************************************)
(* Bounds of the model.                                                    *)
(***************************************************************************)
MaxLoaderRefs == 2   \* GetUriPath calls that may obtain a loader
MaxKeyLen     == 2   \* WCHARs of a reference key before its terminator
MaxPathLen    == 2   \* characters of a file path
MaxFaces      == 2   \* faces a font file may report
MaxRiRefs     == 3   \* references held on the object of a ReleaseInterface slot
MaxApplied    == 4   \* applications of ReleaseInterface to one slot

(***************************************************************************)
(* Program constants.                                                      *)
(***************************************************************************)
S_OK                    == 0
E_NOINTERFACE           == -2147467262
E_FAIL                  == -2147467259
E_NOT_SUFFICIENT_BUFFER == -2147024774

\* A UINT32 is held as its 32-bit pattern read in two's complement (the
\* model checker's integers are 32 bits wide): 0xFFFFFFFF is -1, 0x80000000
\* is -INT32_MAX - 1, and the values up to 0x7FFFFFFF are themselves.
UINT_MAX                == -1
INT32_MAX               == 2147483647

FAILED(h) == h < 0

Statuses   == {S_OK, E_FAIL}
QIStatuses == {S_OK, E_NOINTERFACE, E_FAIL}

\* WCHAR values: 0 is the terminator.
WChars    == {0, 1, 2}
PathChars == WChars \ {0}

SeqsUpTo(S, n) == UNION {[1..k -> S] : k \in 0..n}

\* Reference keys of the loaders this wrapper is used with: WCHAR text with
\* its terminator inside the key.
Keys  == {k \o <<0>> : k \in SeqsUpTo(WChars, MaxKeyLen)}
Paths == SeqsUpTo(PathChars, MaxPathLen)

FileTypes == {0, 1}
FaceTypes == {0, 1}
Bools     == {0, 1}

\* Unsigned a < b on two UINT32 patterns.
ULess32(a, b) ==
    IF (a >= 0) = (b >= 0) THEN a < b ELSE a >= 0

\* n + 1 and n - 1 in UINT32 arithmetic, wrapping at 2^32.
PlusOne32(n) ==
    IF n = UINT_MAX THEN 0
    ELSE IF n = INT32_MAX THEN -INT32_MAX - 1
    ELSE n + 1

MinusOne32(n) ==
    IF n = 0 THEN UINT_MAX
    ELSE IF n = -INT32_MAX - 1 THEN INT32_MAX
    ELSE n - 1

\* What the path-length query may report for a path: its length, or one of
\* the two largest UINT32 values (a loader returning a nonsensical count).
Reports(path) == {Len(path), MinusOne32(UINT_MAX), UINT_MAX}

NoErr   == [kind |-> "none", hr |-> S_OK, name |-> ""]
NoValue == [kind |-> "none", str |-> <<>>, bool |-> FALSE, ptr |-> "NULL"]
StrValue(s)  == [kind |-> "string", str |-> s, bool |-> FALSE, ptr |-> "NULL"]
BoolValue(b) == [kind |-> "bool", str |-> <<>>, bool |-> b, ptr |-> "NULL"]
PtrValue(p)  == [kind |-> "ptr", str |-> <<>>, bool |-> FALSE, ptr |-> p]

NullReference == [kind |-> "NullReferenceException", hr |-> S_OK, name |-> ""]
OutOfMemory   == [kind |-> "OutOfMemoryException", hr |-> S_OK, name |-> ""]

NoPending == [kind |-> "none", value |-> NoValue, err |-> NoErr]
Return(v) == [kind |-> "return", value |-> v, err |-> NoErr]
Throw(e)  == [kind |-> "throw", value |-> NoValue, err |-> e]

\* A native call in the log.  arg is the count the call reported or was
\* given; for a call through the font file it is the number of releases made
\* on the font file before the call was issued; for QueryInterface it is the
\* interface identifier passed.
Event(c, h, a) == [call |-> c, hr |-> h, arg |-> a]

NoBuffer == [cap |-> 0, mem |-> <<>>, null |-> TRUE]

\* The locals of Analyze and GetUriPath as declared: isSupported and
\* numberOfFacesDWrite start at FALSE and 0, the pointers at NULL; the other
\* slots are written by a native call before they are read.
InitLoc ==
    [isSupported |-> 0, numberOfFacesDWrite |-> 0,
     dwriteFontFileType |-> 0, dwriteFontFaceType |-> 0,
     fontFileLoader |-> "NULL", localFontFileLoader |-> "NULL",
     fontFileReferenceKey |-> <<>>, sizeOfFontFileReferenceKey |-> 0,
     sizeOfFilePath |-> 0, fontFilePath |-> NoBuffer, hr |-> S_OK]

InitOut == [fontFileType |-> 0, fontFaceType |-> 0, numberOfFaces |-> 0, hr |-> S_OK]

(***************************************************************************)
(* Helpers of the code.                                                    *)
(***************************************************************************)

\* ConvertHresultToException(hr, name): raises for a failing status, with
\* the status and the name it was given; nothing otherwise.
ConvertHresultToException(h, name) ==
    IF FAILED(h) THEN [kind |-> "StatusFailure", hr |-> h, name |-> name]
    ELSE NoErr

\* The name GetUriPath hands to ConvertHresultToException after each native
\* call: the same string literal at lines 114, 122, 134, 142 and 154.
OperationName(step) == "System::String^ FontFile::GetUriPath"

\* A variant that copies the terminator into the string as well.
WCharStringWithTerminator(mem) ==
    IF mem = <<>> THEN <<>>
    ELSE LET first == CHOOSE i \in 1..Len(mem) :
                        /\ mem[i] = 0
                        /\ \A j \in 1..(i - 1) : mem[j] # 0
         IN  SubSeq(mem, 1, first)

\* gcnew System::String((WCHAR*)p): the characters before the first
\* terminator.
RECURSIVE WCharString(_)
WCharString(mem) ==
    IF mem = <<>> THEN <<>>
    ELSE IF Head(mem) = 0 THEN <<>>
    ELSE <<Head(mem)>> \o WCharString(Tail(mem))

\* A variant whose second conjunct is sizeOfFilePath <= UINT_MAX.
InvariantHoldsInclusive(sizeOfFilePath) ==
    /\ (ULess32(0, sizeOfFilePath) \/ sizeOfFilePath = 0)
    /\ (ULess32(sizeOfFilePath, UINT_MAX) \/ sizeOfFilePath = UINT_MAX)

\* The condition of the invariant at line 144, on a UINT32: the first
\* conjunct holds of every unsigned value.
InvariantHolds(sizeOfFilePath) ==
    /\ (ULess32(0, sizeOfFilePath) \/ sizeOfFilePath = 0)
    /\ ULess32(sizeOfFilePath, UINT_MAX)

\* A variant that calls Release and leaves the pointer in the slot.
ReleaseInterfaceKeepsSlot(ppInterface, target) ==
    IF ppInterface # "NULL" /\ target # "NULL"
    THEN [released |-> TRUE, target |-> target]
    ELSE [released |-> FALSE, target |-> target]

\* A variant that never calls Release.
ReleaseInterfaceLeak(ppInterface, target) ==
    [released |-> FALSE, target |-> target]

\* ReleaseInterface(ppInterface): ppInterface is the slot's address ("NULL"
\* or "slot"), target the pointer the slot holds.
ReleaseInterface(ppInterface, target) ==
    IF ppInterface # "NULL" /\ target # "NULL"
    THEN [released |-> TRUE, target |-> "NULL"]
    ELSE [released |-> FALSE, target |-> target]

\* The text of the GUID at line 20.
IID_IDWriteLocalFontFileLoader == "b2d9f3ec-c9fe-4a11-a2ec-d86208f7c0a2"

\* The static constructor, lines 18-24: a _GUID is allocated, written once
\* and wrapped; inits counts the writes and freed tells a delete of it.
StaticInit ==
    [value |-> IID_IDWriteLocalFontFileLoader, inits |-> 1, freed |-> FALSE]

\* No second thread has touched the handle: held tells that the calling
\* thread has read _fontFile->Value for the call it is about to make, raced
\* that a Dispose ran while an operation was in flight.
NoRace == [held |-> FALSE, raced |-> FALSE]

\* What a native call through _fontFile->Value does.  While the font file
\* is unreleased the call is answered; through the pointer of a released
\* font file it is a call into freed memory, which is answered all the same
\* or ends the process.
CallsThrough == IF fontFileReleases = 0 THEN {"answer"} ELSE {"answer", "crash"}

\* _fontFile as the calling thread reads it for a call: the reference it
\* has already read, or the member.
FontFileRead == IF race.held THEN "wrapper" ELSE fontFile

\* What a step of the handle's own thread leaves alone: the static GUID,
\* the collector and the other objects; a reference read for a call is
\* used up by the step.
ThreadFrame ==
    /\ race' = [race EXCEPT !.held = FALSE]
    /\ UNCHANGED <<collected, two, ri>>

InitFontFile ==
    /\ fontFile = "wrapper"
    /\ fontFileReleases = 0
    /\ loaderRefs = 0
    /\ localRefs = 0
    /\ heap = 0
    /\ pc = "idle"
    /\ op = "ctor"
    /\ outcome = "returned"
    /\ value = NoValue
    /\ err = NoErr
    /\ log = <<>>
    /\ loc = InitLoc
    /\ pending = NoPending
    /\ out = InitOut
    /\ before = InitOut
    /\ nativePath = <<>>

\* The process after the static constructor: nothing collected, one thread.
InitProcess ==
    /\ guid = StaticInit
    /\ collected = FALSE
    /\ race = NoRace

Init ==
    /\ InitFontFile
    /\ InitProcess
    /\ two = <<>>
    /\ ri = <<>>

\* What every operation sets when it is entered.  An operation is entered
\* through a reference to the handle, so never on a collected one.
Enter(name) ==
    /\ pc = "idle"
    /\ ~collected
    /\ ThreadFrame
    /\ guid' = guid
    /\ op' = name
    /\ outcome' = "none"
    /\ value' = NoValue
    /\ err' = NoErr
    /\ log' = <<>>
    /\ loc' = InitLoc
    /\ pending' = NoPending
    /\ nativePath' = <<>>

\* An operation of a single step: entered and ended at once.
Atomic(name) ==
    /\ pc = "idle"
    /\ ~collected
    /\ ThreadFrame
    /\ guid' = guid
    /\ op' = name
    /\ loc' = InitLoc
    /\ pending' = NoPending
    /\ nativePath' = <<>>
    /\ out' = InitOut
    /\ before' = InitOut
    /\ UNCHANGED <<loaderRefs, localRefs, heap, pc>>

\* The operation in flight ends by raising e (outside any try block).
Raise(e) ==
    /\ outcome' = "raised"
    /\ err' = e
    /\ value' = NoValue
    /\ pc' = "idle"

\* The operation in flight ends by returning v.
ReturnValue(v) ==
    /\ outcome' = "returned"
    /\ err' = NoErr
    /\ value' = v
    /\ pc' = "idle"

\* The process is terminated inside the operation: nothing runs afterwards.
Terminate(how) ==
    /\ outcome' = how
    /\ err' = NoErr
    /\ value' = NoValue
    /\ pc' = "dead"

(***************************************************************************)
(* ~FontFile (Dispose).  delete _fontFile disposes the wrapper of the      *)
(* native pointer, which releases the IDWriteFontFile.                     *)
(***************************************************************************)
\* A variant without the test of _fontFile against nullptr.
DisposeUnguarded ==
    /\ Atomic("Dispose")
    /\ outcome' = "returned" /\ value' = NoValue /\ err' = NoErr
    /\ fontFileReleases' = fontFileReleases + 1
    /\ log' = <<Event("IDWriteFontFile::Release", S_OK, 0)>>
    /\ fontFile' = "nullptr"

Dispose ==
    /\ Atomic("Dispose")
    /\ outcome' = "returned" /\ value' = NoValue /\ err' = NoErr
    /\ IF fontFile # "nullptr"
       THEN /\ fontFileReleases' = fontFileReleases + 1
            /\ log' = <<Event("IDWriteFontFile::Release", S_OK, 0)>>
            /\ fontFile' = "nullptr"
       ELSE /\ log' = <<>>
            /\ UNCHANGED <<fontFile, fontFileReleases>>

\* A variant of the accessor that hands the pointer out and clears the member.
GetNoAddRefClears ==
    /\ Atomic("DWriteFontFileNoAddRef")
    /\ log' = <<>>
    /\ IF fontFile = "nullptr"
       THEN outcome' = "raised" /\ err' = NullReference /\ value' = NoValue
       ELSE outcome' = "returned" /\ err' = NoErr
            /\ value' = PtrValue("IDWriteFontFile")
    /\ fontFile' = "nullptr"
    /\ UNCHANGED fontFileReleases

(***************************************************************************)
(* DWriteFontFileNoAddRef::get: return _fontFile->Value.  Dereferencing    *)
(* the managed handle _fontFile when it is nullptr raises                  *)
(* NullReferenceException.                                                 *)
(***************************************************************************)
GetNoAddRef ==
    /\ Atomic("DWriteFontFileNoAddRef")
    /\ log' = <<>>
    /\ IF fontFile = "nullptr"
       THEN outcome' = "raised" /\ err' = NullReference /\ value' = NoValue
       ELSE outcome' = "returned" /\ err' = NoErr
            /\ value' = PtrValue("IDWriteFontFile")
    /\ UNCHANGED <<fontFile, fontFileReleases>>

(***************************************************************************)
(* Analyze.                                                                *)
(***************************************************************************)

\* Entry: the caller binds its variables to the out parameters and to hr;
\* lines 63-66 declare the locals.
AnalyzeBegin ==
    /\ Enter("Analyze")
    /\ \E ft \in FileTypes, fc \in FaceTypes, n \in 0..MaxFaces, h \in Statuses :
          /\ out' = [fontFileType |-> ft, fontFaceType |-> fc,
                     numberOfFaces |-> n, hr |-> h]
          /\ before' = out'
    /\ pc' = "Analyze_67"
    /\ UNCHANGED <<fontFile, fontFileReleases, loaderRefs, localRefs, heap>>

\* A variant that makes the native call through whatever pointer the
\* handle last held, with no dereference of the handle.
AnalyzeCallUnchecked ==
    /\ pc = "Analyze_67"
    /\ \E h \in Statuses, sup \in Bools, ft \in FileTypes, fc \in FaceTypes,
          n \in 0..MaxFaces :
          /\ log' = Append(log, Event("IDWriteFontFile::Analyze", h, fontFileReleases))
          /\ out' = [out EXCEPT !.hr = h]
          /\ loc' = IF FAILED(h) THEN loc
                    ELSE [loc EXCEPT !.isSupported = sup,
                                     !.dwriteFontFileType = ft,
                                     !.dwriteFontFaceType = fc,
                                     !.numberOfFacesDWrite = n]
          /\ pc' = "Analyze_74"
          /\ UNCHANGED <<outcome, err, value>>
    /\ UNCHANGED <<fontFile, fontFileReleases, loaderRefs, localRefs, heap, op,
                   pending, before, nativePath, guid>>
    /\ ThreadFrame

\* Lines 67-72: hr = _fontFile->Value->Analyze(...).  The native call
\* writes its four outputs when it succeeds.
AnalyzeCall ==
    /\ pc = "Analyze_67"
    /\ IF FontFileRead = "nullptr"
       THEN /\ Raise(NullReference)
            /\ UNCHANGED <<log, out, loc>>
       ELSE \E h \in Statuses, sup \in Bools, ft \in FileTypes, fc \in FaceTypes,
               n \in 0..MaxFaces, how \in CallsThrough :
               IF how = "crash"
               THEN /\ Terminate("crash")
                    /\ UNCHANGED <<log, out, loc>>
               ELSE /\ log' = Append(log, Event("IDWriteFontFile::Analyze", h,
                                                fontFileReleases))
                    /\ out' = [out EXCEPT !.hr = h]
                    /\ loc' = IF FAILED(h) THEN loc
                              ELSE [loc EXCEPT !.isSupported = sup,
                                               !.dwriteFontFileType = ft,
                                               !.dwriteFontFaceType = fc,
                                               !.numberOfFacesDWrite = n]
                    /\ pc' = "Analyze_74"
                    /\ UNCHANGED <<outcome, err, value>>
    /\ UNCHANGED <<fontFile, fontFileReleases, loaderRefs, localRefs, heap, op,
                   pending, before, nativePath, guid>>
    /\ ThreadFrame

\* A variant that assigns the out parameters before testing FAILED(hr).
AnalyzeReturnAssignsAlways ==
    /\ pc = "Analyze_74"
    /\ out' = [out EXCEPT !.fontFileType = loc.dwriteFontFileType,
                          !.fontFaceType = loc.dwriteFontFaceType,
                          !.numberOfFaces = loc.numberOfFacesDWrite]
    /\ ReturnValue(BoolValue(loc.isSupported # 0 /\ ~FAILED(out.hr)))
    /\ UNCHANGED <<fontFile, fontFileReleases, loaderRefs, localRefs, heap, op,
                   log, loc, pending, before, nativePath, guid>>
    /\ ThreadFrame

\* A variant that returns true for every successful status.
AnalyzeReturnSupported ==
    /\ pc = "Analyze_74"
    /\ IF FAILED(out.hr)
       THEN /\ ReturnValue(BoolValue(FALSE))
            /\ out' = out
       ELSE /\ out' = [out EXCEPT !.fontFileType = loc.dwriteFontFileType,
                                  !.fontFaceType = loc.dwriteFontFaceType,
                                  !.numberOfFaces = loc.numberOfFacesDWrite]
            /\ ReturnValue(BoolValue(TRUE))
    /\ UNCHANGED <<fontFile, fontFileReleases, loaderRefs, localRefs, heap, op,
                   log, loc, pending, before, nativePath, guid>>
    /\ ThreadFrame

\* Lines 74-84: KeepAlive, the FAILED(hr) test, the assignments to the out
\* parameters and return (!!isSupported).
AnalyzeReturn ==
    /\ pc = "Analyze_74"
    /\ IF FAILED(out.hr)
       THEN /\ ReturnValue(BoolValue(FALSE))
            /\ out' = out
       ELSE /\ out' = [out EXCEPT !.fontFileType = loc.dwriteFontFileType,
                                  !.fontFaceType = loc.dwriteFontFaceType,
                                  !.numberOfFaces = loc.numberOfFacesDWrite]
            /\ ReturnValue(BoolValue(loc.isSupported # 0))
    /\ UNCHANGED <<fontFile, fontFileReleases, loaderRefs, localRefs, heap, op,
                   log, loc, pending, before, nativePath, guid>>
    /\ ThreadFrame

(***************************************************************************)
(* GetUriPath.                                                             *)
(***************************************************************************)

\* What a step of GetUriPath leaves alone besides what it names.
GetUriPathFrame ==
    /\ UNCHANGED <<fontFile, fontFileReleases, op, out, before, guid>>
    /\ ThreadFrame

\* Entry, lines 109-112: fontFileLoader = NULL.
GetUriPathBegin ==
    /\ Enter("GetUriPath")
    /\ loaderRefs < MaxLoaderRefs
    /\ pc' = "GetUriPath_113"
    /\ out' = InitOut /\ before' = InitOut
    /\ UNCHANGED <<fontFile, fontFileReleases, loaderRefs, localRefs, heap>>

\* A variant without the ConvertHresultToException of line 114.
GetLoaderIgnoresStatus ==
    /\ pc = "GetUriPath_113"
    /\ fontFile # "nullptr"
    /\ \E h \in Statuses :
          /\ log' = Append(log, Event("GetLoader", h, fontFileReleases))
          /\ loc' = [loc EXCEPT !.fontFileLoader =
                        IF FAILED(h) THEN "NULL" ELSE "IDWriteFontFileLoader"]
          /\ loaderRefs' = IF FAILED(h) THEN loaderRefs ELSE loaderRefs + 1
          /\ pc' = "GetUriPath_117"
          /\ UNCHANGED <<outcome, err, value>>
    /\ UNCHANGED <<localRefs, heap, pending, nativePath>>
    /\ GetUriPathFrame

\* Lines 113-114: hr = _fontFile->Value->GetLoader(&fontFileLoader), then
\* ConvertHresultToException.  A successful GetLoader hands out a reference
\* on the loader.
GetLoader ==
    /\ pc = "GetUriPath_113"
    /\ IF FontFileRead = "nullptr"
       THEN /\ Raise(NullReference)
            /\ UNCHANGED <<log, loc, loaderRefs>>
       ELSE \E h \in Statuses, how \in CallsThrough :
               IF how = "crash"
               THEN /\ Terminate("crash")
                    /\ UNCHANGED <<log, loc, loaderRefs>>
               ELSE /\ log' = Append(log, Event("GetLoader", h, fontFileReleases))
                    /\ IF FAILED(h)
                       THEN /\ Raise(ConvertHresultToException(h,
                                         OperationName("GetLoader")))
                            /\ UNCHANGED <<loc, loaderRefs>>
                       ELSE /\ loc' = [loc EXCEPT
                                          !.fontFileLoader = "IDWriteFontFileLoader"]
                            /\ loaderRefs' = loaderRefs + 1
                            /\ pc' = "GetUriPath_117"
                            /\ UNCHANGED <<outcome, err, value>>
    /\ UNCHANGED <<localRefs, heap, pending, nativePath>>
    /\ GetUriPathFrame

\* A variant without the E_NOINTERFACE branch.
QueryInterfaceNoFallback ==
    /\ pc = "GetUriPath_117"
    /\ \E h \in QIStatuses :
          /\ log' = Append(log, Event("QueryInterface", h, guid.value))
          /\ loc' = [loc EXCEPT !.localFontFileLoader =
                        IF h = S_OK THEN "IDWriteLocalFontFileLoader" ELSE "NULL"]
          /\ localRefs' = IF h = S_OK THEN localRefs + 1 ELSE localRefs
          /\ pc' = "GetUriPath_132"
    /\ UNCHANGED <<loaderRefs, heap, outcome, err, value, pending, nativePath>>
    /\ GetUriPathFrame

\* A variant that deletes the _GUID once the query has used it.
QueryInterfaceFreesGuid ==
    /\ pc = "GetUriPath_117"
    /\ \E h \in QIStatuses :
          /\ log' = Append(log, Event("QueryInterface", h,
                              IF guid.freed THEN "freed" ELSE guid.value))
          /\ loc' = [loc EXCEPT !.localFontFileLoader =
                        IF h = S_OK THEN "IDWriteLocalFontFileLoader" ELSE "NULL"]
          /\ localRefs' = IF h = S_OK THEN localRefs + 1 ELSE localRefs
          /\ pc' = IF h = E_NOINTERFACE THEN "GetUriPath_120" ELSE "GetUriPath_132"
    /\ guid' = [guid EXCEPT !.freed = TRUE]
    /\ UNCHANGED <<loaderRefs, heap, outcome, err, value, pending, nativePath>>
    /\ UNCHANGED <<fontFile, fontFileReleases, op, out, before>>
    /\ ThreadFrame

\* Lines 116-118 and 127-128: QueryInterface for the local-file loader
\* interface, the branch on E_NOINTERFACE, and in the else branch the cast
\* of the interface pointer and fontFilePath = NULL.  QueryInterface stores
\* a referenced interface pointer when it succeeds and NULL otherwise.
QueryInterface ==
    /\ pc = "GetUriPath_117"
    /\ \E h \in QIStatuses :
          /\ log' = Append(log, Event("QueryInterface", h, guid.value))
          /\ loc' = [loc EXCEPT !.localFontFileLoader =
                        IF h = S_OK THEN "IDWriteLocalFontFileLoader" ELSE "NULL"]
          /\ localRefs' = IF h = S_OK THEN localRefs + 1 ELSE localRefs
          /\ pc' = IF h = E_NOINTERFACE THEN "GetUriPath_120" ELSE "GetUriPath_132"
    /\ UNCHANGED <<loaderRefs, heap, outcome, err, value, pending, nativePath>>
    /\ GetUriPathFrame

\* Lines 120-121, the fallback: GetReferenceKey, then KeepAlive(_fontFile),
\* the last use of the handle on this branch.
FallbackGetReferenceKey ==
    /\ pc = "GetUriPath_120"
    /\ IF FontFileRead = "nullptr"
       THEN /\ Raise(NullReference)
            /\ UNCHANGED <<log, loc>>
       ELSE \E h \in Statuses, key \in Keys, how \in CallsThrough :
               IF how = "crash"
               THEN /\ Terminate("crash")
                    /\ UNCHANGED <<log, loc>>
               ELSE /\ log' = Append(log, Event("GetReferenceKey", h, fontFileReleases))
                    /\ loc' = IF FAILED(h)
                              THEN [loc EXCEPT !.hr = h]
                              ELSE [loc EXCEPT !.hr = h,
                                               !.fontFileReferenceKey = key,
                                               !.sizeOfFontFileReferenceKey = 2 * Len(key)]
                    /\ pc' = "GetUriPath_122"
                    /\ UNCHANGED <<outcome, err, value>>
    /\ UNCHANGED <<loaderRefs, localRefs, heap, pending, nativePath>>
    /\ GetUriPathFrame

\* Lines 122-123: ConvertHresultToException, then return the key read as
\* WCHAR text.  The key is memory of the font file: once the font file has
\* been released the read is of freed memory, which yields any text or ends
\* the process.
FallbackReturn ==
    /\ pc = "GetUriPath_122"
    /\ IF FAILED(loc.hr)
       THEN Raise(ConvertHresultToException(loc.hr, OperationName("GetReferenceKey")))
       ELSE IF fontFileReleases = 0
            THEN ReturnValue(StrValue(WCharString(loc.fontFileReferenceKey)))
            ELSE \/ \E freed \in Keys : ReturnValue(StrValue(WCharString(freed)))
                 \/ Terminate("crash")
    /\ UNCHANGED <<loaderRefs, localRefs, heap, log, loc, pending, nativePath>>
    /\ GetUriPathFrame

\* Lines 132-134, inside the try: GetReferenceKey, KeepAlive,
\* ConvertHresultToException.
TryGetReferenceKey ==
    /\ pc = "GetUriPath_132"
    /\ IF FontFileRead = "nullptr"
       THEN /\ pending' = Throw(NullReference)
            /\ pc' = "GetUriPath_157"
            /\ UNCHANGED <<log, loc, outcome, err, value>>
       ELSE \E h \in Statuses, key \in Keys, how \in CallsThrough :
               IF how = "crash"
               THEN /\ Terminate("crash")
                    /\ UNCHANGED <<log, loc, pending>>
               ELSE /\ log' = Append(log, Event("GetReferenceKey", h, fontFileReleases))
                    /\ IF FAILED(h)
                       THEN /\ pending' = Throw(ConvertHresultToException(h,
                                                    OperationName("GetReferenceKey")))
                            /\ pc' = "GetUriPath_157"
                            /\ loc' = loc
                       ELSE /\ loc' = [loc EXCEPT !.fontFileReferenceKey = key,
                                                  !.sizeOfFontFileReferenceKey = 2 * Len(key)]
                            /\ pc' = "GetUriPath_137"
                            /\ pending' = pending
                    /\ UNCHANGED <<outcome, err, value>>
    /\ UNCHANGED <<loaderRefs, localRefs, heap, nativePath>>
    /\ GetUriPathFrame

\* What a native call does with the reference key it is handed (lines 138
\* and 149).  The key is memory of the font file: while the font file is
\* unreleased the callee reads it; once it has been released the callee
\* reads freed memory, which answers anything or ends the process.
KeyReads == IF fontFileReleases = 0 THEN {"read"} ELSE {"read", "crash"}

\* The path the local-file loader resolves for the key handed to the path
\* call of line 148: the path whose length it reported while the key is
\* intact, the path of whatever the freed key memory now reads as once the
\* font file has been released.
KeyPaths == IF fontFileReleases = 0 THEN {nativePath} ELSE Paths

\* Lines 136-142: localFontFileLoader->GetFilePathLengthFromKey, then
\* ConvertHresultToException.  With localFontFileLoader NULL the call goes
\* through a null native pointer: the access violation is raised as an
\* exception or ends the process.
GetFilePathLengthFromKey ==
    /\ pc = "GetUriPath_137"
    /\ IF loc.localFontFileLoader = "NULL"
       THEN \E how \in {"raise", "crash"} :
               /\ log' = Append(log, Event("call through NULL", E_FAIL, 0))
               /\ IF how = "raise"
                  THEN /\ pending' = Throw(NullReference)
                       /\ pc' = "GetUriPath_157"
                       /\ UNCHANGED <<outcome, err, value>>
                  ELSE /\ Terminate("crash")
                       /\ pending' = pending
               /\ UNCHANGED <<loc, nativePath>>
       ELSE \E h \in Statuses, path \in Paths, how \in KeyReads :
            \E reported \in Reports(path) :
               IF how = "crash"
               THEN /\ Terminate("crash")
                    /\ UNCHANGED <<log, loc, nativePath, pending>>
               ELSE IF FAILED(h)
               THEN /\ log' = Append(log, Event("GetFilePathLengthFromKey", h, 0))
                    /\ pending' = Throw(ConvertHresultToException(h,
                                     OperationName("GetFilePathLengthFromKey")))
                    /\ pc' = "GetUriPath_157"
                    /\ UNCHANGED <<loc, nativePath, outcome, err, value>>
               ELSE /\ log' = Append(log, Event("GetFilePathLengthFromKey", h, reported))
                    /\ loc' = [loc EXCEPT !.sizeOfFilePath = reported]
                    /\ nativePath' = path
                    /\ pc' = "GetUriPath_144"
                    /\ UNCHANGED <<pending, outcome, err, value>>
    /\ UNCHANGED <<loaderRefs, localRefs, heap>>
    /\ GetUriPathFrame

\* Line 144: Invariant::Assert(sizeOfFilePath >= 0 && sizeOfFilePath <
\* UINT_MAX).  A failed invariant ends the process at once.
InvariantCheck ==
    /\ pc = "GetUriPath_144"
    /\ IF InvariantHolds(loc.sizeOfFilePath)
       THEN /\ pc' = "GetUriPath_146"
            /\ UNCHANGED <<outcome, err, value>>
       ELSE Terminate("failfast")
    /\ UNCHANGED <<loaderRefs, localRefs, heap, log, loc, pending, nativePath>>
    /\ GetUriPathFrame

\* Line 146: fontFilePath = new WCHAR[sizeOfFilePath + 1].  The allocation
\* may fail, which raises and leaves fontFilePath NULL.
NewBuffer ==
    /\ pc = "GetUriPath_146"
    /\ \E ok \in BOOLEAN :
          IF ok
          THEN /\ loc' = [loc EXCEPT !.fontFilePath =
                             [cap |-> PlusOne32(loc.sizeOfFilePath),
                              mem |-> <<>>, null |-> FALSE]]
               /\ heap' = heap + 1
               /\ log' = Append(log, Event("new[]", S_OK, PlusOne32(loc.sizeOfFilePath)))
               /\ pc' = "GetUriPath_148"
               /\ pending' = pending
          ELSE /\ pending' = Throw(OutOfMemory)
               /\ pc' = "GetUriPath_157"
               /\ UNCHANGED <<loc, heap, log>>
    /\ UNCHANGED <<loaderRefs, localRefs, outcome, err, value, nativePath>>
    /\ GetUriPathFrame

\* Lines 148-155: localFontFileLoader->GetFilePathFromKey with capacity
\* sizeOfFilePath + 1, ConvertHresultToException, return the buffer read as
\* WCHAR text.  The loader writes the path it resolves for the key and a
\* terminator when they fit the capacity and fails otherwise.
GetFilePathFromKey ==
    /\ pc = "GetUriPath_148"
    /\ \E h \in Statuses, how \in KeyReads, path \in KeyPaths :
          LET capacity == PlusOne32(loc.sizeOfFilePath)
              status   == IF h = S_OK /\ ULess32(capacity, Len(path) + 1)
                          THEN E_NOT_SUFFICIENT_BUFFER ELSE h
              written  == path \o <<0>>
          IN  IF how = "crash"
              THEN /\ Terminate("crash")
                   /\ UNCHANGED <<log, loc, pending>>
              ELSE /\ log' = Append(log, Event("GetFilePathFromKey", status, capacity))
                   /\ IF FAILED(status)
                      THEN /\ pending' = Throw(ConvertHresultToException(status,
                                            OperationName("GetFilePathFromKey")))
                           /\ loc' = loc
                      ELSE /\ loc' = [loc EXCEPT !.fontFilePath.mem = written]
                           /\ pending' = Return(StrValue(WCharString(written)))
                   /\ pc' = "GetUriPath_157"
                   /\ UNCHANGED <<outcome, err, value>>
    /\ UNCHANGED <<loaderRefs, localRefs, heap, nativePath>>
    /\ GetUriPathFrame

\* A variant of the finally block without the delete [].
FinallyNoFree ==
    /\ pc = "GetUriPath_157"
    /\ LET r     == ReleaseInterface("slot", loc.localFontFileLoader)
       IN  /\ localRefs' = IF r.released THEN localRefs - 1 ELSE localRefs
           /\ log' = IF r.released
                     THEN Append(log, Event("IDWriteLocalFontFileLoader::Release", S_OK, 0))
                     ELSE log
           /\ loc' = [loc EXCEPT !.localFontFileLoader = r.target]
    /\ IF pending.kind = "return"
       THEN ReturnValue(pending.value)
       ELSE Raise(pending.err)
    /\ pending' = NoPending
    /\ UNCHANGED <<loaderRefs, nativePath, heap>>
    /\ GetUriPathFrame

\* Lines 157-164, the finally block: ReleaseInterface(&localFontFileLoader),
\* delete [] fontFilePath when it is not NULL; then the pending return or
\* throw completes.
Finally ==
    /\ pc = "GetUriPath_157"
    /\ LET r     == ReleaseInterface("slot", loc.localFontFileLoader)
           log1  == IF r.released
                    THEN Append(log, Event("IDWriteLocalFontFileLoader::Release", S_OK, 0))
                    ELSE log
           free  == ~loc.fontFilePath.null
       IN  /\ localRefs' = IF r.released THEN localRefs - 1 ELSE localRefs
           /\ heap' = IF free THEN heap - 1 ELSE heap
           /\ log' = IF free THEN Append(log1, Event("delete[]", S_OK, 0)) ELSE log1
           /\ loc' = [loc EXCEPT !.localFontFileLoader = r.target]
    /\ IF pending.kind = "return"
       THEN ReturnValue(pending.value)
       ELSE Raise(pending.err)
    /\ pending' = NoPending
    /\ UNCHANGED <<loaderRefs, nativePath>>
    /\ GetUriPathFrame

Next ==
    \/ Dispose
    \/ GetNoAddRef
    \/ AnalyzeBegin
    \/ AnalyzeCall
    \/ AnalyzeReturn
    \/ GetUriPathBegin
    \/ GetLoader
    \/ QueryInterface
    \/ FallbackGetReferenceKey
    \/ FallbackReturn
    \/ TryGetReferenceKey
    \/ GetFilePathLengthFromKey
    \/ InvariantCheck
    \/ NewBuffer
    \/ GetFilePathFromKey
    \/ Finally

Spec == Init /\ [][Next]_vars

(***************************************************************************)
(* The handle under a collector.  GC::KeepAlive(_fontFile) at lines 74,    *)
(* 121 and 133 is the last use of the handle in its method: on the         *)
(* fallback branch lines 122-123 follow the KeepAlive of line 121, and in  *)
(* the try block lines 134-164 follow the KeepAlive of line 133, without   *)
(* using the handle again.  When no caller holds the handle either, the    *)
(* collector may reclaim it there or once the operation has ended, and the *)
(* finalizer of the wrapper releases the native font file.                 *)
(***************************************************************************)
Reclaimable ==
    pc \in {"GetUriPath_122", "GetUriPath_137", "GetUriPath_144", "GetUriPath_146",
            "GetUriPath_148", "GetUriPath_157", "idle"}

Collect ==
    /\ Reclaimable
    /\ ~collected
    /\ fontFile = "wrapper"
    /\ collected' = TRUE
    /\ fontFileReleases' = fontFileReleases + 1
    /\ UNCHANGED <<fontFile, loaderRefs, localRefs, heap, pc, op, outcome, value,
                   err, log, loc, pending, out, before, nativePath, guid, race,
                   two, ri>>

NextGC == Next \/ Collect

SpecGC == Init /\ [][NextGC]_vars

(***************************************************************************)
(* The handle shared by two threads without serialisation: while one       *)
(* thread is inside Analyze or GetUriPath, a second thread may run         *)
(* ~FontFile.  hr = _fontFile->Value->...  first reads the native pointer  *)
(* out of the wrapper and then calls through it; the second thread's       *)
(* Dispose may fall between the two.                                       *)
(***************************************************************************)
CallSites == {"Analyze_67", "GetUriPath_113", "GetUriPath_120", "GetUriPath_132"}

\* The calling thread evaluates _fontFile->Value for its next call.
RaceLoad ==
    /\ pc \in CallSites
    /\ ~race.held
    /\ fontFile = "wrapper"
    /\ race' = [race EXCEPT !.held = TRUE]
    /\ UNCHANGED <<fontFile, fontFileReleases, loaderRefs, localRefs, heap, pc, op,
                   outcome, value, err, log, loc, pending, out, before, nativePath,
                   guid, collected, two, ri>>

\* ~FontFile (lines 44-48) run by a second thread while an operation of the
\* first is in flight.
RaceDispose ==
    /\ pc \notin {"idle", "dead"}
    /\ IF fontFile # "nullptr"
       THEN /\ fontFileReleases' = fontFileReleases + 1
            /\ fontFile' = "nullptr"
       ELSE UNCHANGED <<fontFile, fontFileReleases>>
    /\ race' = [race EXCEPT !.raced = TRUE]
    /\ UNCHANGED <<loaderRefs, localRefs, heap, pc, op, outcome, value, err, log,
                   loc, pending, out, before, nativePath, guid, collected, two, ri>>

NextRace == Next \/ RaceLoad \/ RaceDispose

SpecRace == Init /\ [][NextRace]_vars

(***************************************************************************)
(* Two handles, constructed on two different native font files, each used  *)
(* by its own thread for Analyze.  Both handles are alive.  A native font  *)
(* file answers Analyze with its own data every time.  Analyze touches its *)
(* arguments, its locals and _fontFile of its own handle and nothing else, *)
(* so a step of handle i is a function of the record of handle i.          *)
(***************************************************************************)

\* What a native font file answers to Analyze.
FontFiles ==
    [hr : Statuses, isSupported : Bools, fileType : FileTypes,
     faceType : FaceTypes, faces : 0..MaxFaces]

\* The locals of lines 63-66.
AnalyzeLocals ==
    [isSupported |-> 0, numberOfFacesDWrite |-> 0,
     dwriteFontFileType |-> 0, dwriteFontFaceType |-> 0]

\* A handle on file f before its first call.
HandleOn(f) ==
    [file |-> f, pc |-> "idle", ended |-> FALSE, loc |-> AnalyzeLocals,
     out |-> InitOut, before |-> InitOut, value |-> NoValue]

\* Entry of Analyze, lines 56-66.
AnalyzeEnter(h) ==
    [h EXCEPT !.pc = "Analyze_67", !.ended = FALSE, !.loc = AnalyzeLocals,
              !.before = h.out, !.value = NoValue]

\* Lines 67-72: the native call on the handle's own file; hr is the caller's
\* variable, the outputs go to the locals.
AnalyzeNative(h) ==
    [h EXCEPT !.pc = "Analyze_74",
              !.out.hr = h.file.hr,
              !.loc = IF FAILED(h.file.hr) THEN @
                      ELSE [isSupported |-> h.file.isSupported,
                            numberOfFacesDWrite |-> h.file.faces,
                            dwriteFontFileType |-> h.file.fileType,
                            dwriteFontFaceType |-> h.file.faceType]]

\* Lines 74-84.
AnalyzeExit(h) ==
    IF FAILED(h.out.hr)
    THEN [h EXCEPT !.pc = "idle", !.ended = TRUE, !.value = BoolValue(FALSE)]
    ELSE [h EXCEPT !.pc = "idle", !.ended = TRUE,
                   !.out.fontFileType = h.loc.dwriteFontFileType,
                   !.out.fontFaceType = h.loc.dwriteFontFaceType,
                   !.out.numberOfFaces = h.loc.numberOfFacesDWrite,
                   !.value = BoolValue(h.loc.isSupported # 0)]

InitTwo ==
    /\ InitFontFile
    /\ InitProcess
    /\ ri = <<>>
    /\ two \in {<<HandleOn(f), HandleOn(g)>> : f \in FontFiles, g \in FontFiles}
    /\ two[1].file # two[2].file

\* What a step on one of the two handles leaves alone.
TwoFrame ==
    UNCHANGED <<fontFile, fontFileReleases, loaderRefs, localRefs, heap, pc, op,
                outcome, value, err, log, loc, pending, out, before, nativePath,
                guid, collected, race, ri>>

TwoAnalyzeBegin ==
    \E i \in DOMAIN two :
        /\ two[i].pc = "idle"
        /\ two' = [two EXCEPT ![i] = AnalyzeEnter(two[i])]
        /\ TwoFrame

\* A variant in which the four locals are storage shared by all calls.
TwoAnalyzeCallShared ==
    \E i \in DOMAIN two :
        /\ two[i].pc = "Analyze_67"
        /\ two' = [j \in DOMAIN two |->
                     IF j = i THEN AnalyzeNative(two[i])
                     ELSE [two[j] EXCEPT !.loc = AnalyzeNative(two[i]).loc]]
        /\ TwoFrame

TwoAnalyzeCall ==
    \E i \in DOMAIN two :
        /\ two[i].pc = "Analyze_67"
        /\ two' = [two EXCEPT ![i] = AnalyzeNative(two[i])]
        /\ TwoFrame

TwoAnalyzeReturn ==
    \E i \in DOMAIN two :
        /\ two[i].pc = "Analyze_74"
        /\ two' = [two EXCEPT ![i] = AnalyzeExit(two[i])]
        /\ TwoFrame

NextTwo ==
    \/ TwoAnalyzeBegin
    \/ TwoAnalyzeCall
    \/ TwoAnalyzeReturn

SpecTwo == InitTwo /\ [][NextTwo]_vars

(***************************************************************************)
(* ReleaseInterface on its own: a slot (or no slot) is handed to it        *)
(* repeatedly, and the caller may store a new reference in the slot        *)
(* between two applications.                                               *)
(***************************************************************************)

\* The inputs: the slot's address, the pointer the slot holds, and the
\* references outstanding on the object (the slot's own among them).
RiInputs ==
    {[pp |-> a, target |-> t, refs |-> n, releases |-> 0, applied |-> 0, run |-> 0] :
        a \in {"NULL", "slot"},
        t \in {"NULL", "IDWriteLocalFontFileLoader"},
        n \in 1..MaxRiRefs}

InitRI ==
    /\ InitFontFile
    /\ InitProcess
    /\ two = <<>>
    /\ ri \in RiInputs

\* One call ReleaseInterface(ppInterface) (lines 179-186): releases counts
\* the Release calls made, run those made since the slot was last written
\* by the caller.
RiApply ==
    /\ ri.applied < MaxApplied
    /\ LET r == ReleaseInterface(ri.pp, ri.target)
       IN  ri' = [ri EXCEPT !.target = r.target,
                            !.refs = IF r.released THEN @ - 1 ELSE @,
                            !.releases = IF r.released THEN @ + 1 ELSE @,
                            !.run = IF r.released THEN @ + 1 ELSE @,
                            !.applied = @ + 1]
    /\ UNCHANGED <<fontFile, fontFileReleases, loaderRefs, localRefs, heap, pc, op,
                   outcome, value, err, log, loc, pending, out, before, nativePath,
                   guid, collected, race, two>>

\* The caller stores a fresh reference in an empty slot, as line 127 does.
RiStore ==
    /\ ri.pp = "slot" /\ ri.target = "NULL"
    /\ ri.refs < MaxRiRefs
    /\ ri' = [ri EXCEPT !.target = "IDWriteLocalFontFileLoader",
                        !.refs = @ + 1, !.run = 0]
    /\ UNCHANGED <<fontFile, fontFileReleases, loaderRefs, localRefs, heap, pc, op,
                   outcome, value, err, log, loc, pending, out, before, nativePath,
                   guid, collected, race, two>>

NextRI == RiApply \/ RiStore

SpecRI == InitRI /\ [][NextRI]_vars

(***************************************************************************)
(* Vocabulary of the properties.                                           *)
(***************************************************************************)

\* The positions in the call log of the calls named c, and their number.
CallsOf(c) == {i \in DOMAIN log : log[i].call = c}
Count(c)   == Cardinality(CallsOf(c))

\* The call named c was made and answered with status h.
Answered(c, h) == \E i \in CallsOf(c) : log[i].hr = h
\* The call named c was made and failed.
FailedCall(c)  == \E i \in CallsOf(c) : FAILED(log[i].hr)

InGetUriPath   == op = "GetUriPath"
\* GetUriPath has returned to its caller or raised to it.
GetUriPathEnded ==
    InGetUriPath /\ pc = "idle" /\ outcome \in {"returned", "raised"}
AnalyzeEnded ==
    op = "Analyze" /\ pc = "idle" /\ outcome \in {"returned", "raised"}

\* The four native calls of the resolution protocol, in the model's names.
ProtocolCalls ==
    {"GetLoader", "GetReferenceKey", "GetFilePathLengthFromKey", "GetFilePathFromKey"}
\* The calls that only clean up.
CleanupCalls == {"IDWriteLocalFontFileLoader::Release", "delete[]"}

LocalRelease == "IDWriteLocalFontFileLoader::Release"

\* The calls made through _fontFile->Value.
FontFileCalls == {"IDWriteFontFile::Analyze", "GetLoader", "GetReferenceKey"}
\* A call in the log was issued through a font-file reference already released.
UseAfterRelease ==
    \E i \in DOMAIN log : log[i].call \in FontFileCalls /\ log[i].arg > 0

(***************************************************************************)
(* C1.  The wrapper releases its native font-file reference at most once:  *)
(* the reference is null exactly when it has been released once; a Dispose *)
(* that finds the reference non-null releases it once and clears it; a     *)
(* Dispose that finds it null makes no native call and changes neither the *)
(* reference nor any count of native resources.                            *)
(***************************************************************************)
C1_ReleasedAtMostOnce ==
    /\ fontFileReleases \in {0, 1}
    /\ (fontFile = "nullptr") <=> (fontFileReleases = 1)

C1_DisposeStep ==
    (pc = "idle" /\ op' = "Dispose") =>
        IF fontFile # "nullptr"
        THEN /\ fontFileReleases' = fontFileReleases + 1
             /\ fontFile' = "nullptr"
             /\ Len(log') = 1
        ELSE /\ log' = <<>>
             /\ UNCHANGED <<fontFile, fontFileReleases, loaderRefs, localRefs, heap>>

C1_DisposeIdempotent == []C1_ReleasedAtMostOnce /\ [][C1_DisposeStep]_vars

\* A second Dispose has run after operations on the handle.
C1_Witness ==
    /\ op = "Dispose" /\ log = <<>>
    /\ fontFile = "nullptr" /\ fontFileReleases = 1
    /\ loaderRefs > 0

(***************************************************************************)
(* C2.  When the capability query of a GetUriPath call yielded a           *)
(* local-file loader, that loader is released at most once while the call  *)
(* runs and exactly once when the call has returned or raised; without     *)
(* such a loader nothing is released.                                      *)
(***************************************************************************)
C2_LocalLoaderReleasedOnce ==
    InGetUriPath =>
        /\ Count(LocalRelease) <= Count("QueryInterface")
        /\ Count(LocalRelease) > 0 => Answered("QueryInterface", S_OK)
        /\ (GetUriPathEnded /\ Answered("QueryInterface", S_OK)) =>
               /\ Count(LocalRelease) = 1
               /\ loc.localFontFileLoader = "NULL"
               /\ localRefs = 0

\* The loader was obtained, a later step failed, and the call has raised.
C2_Witness ==
    /\ GetUriPathEnded /\ outcome = "raised"
    /\ Answered("QueryInterface", S_OK)
    /\ FailedCall("GetFilePathLengthFromKey")
    /\ Count(LocalRelease) = 1

(***************************************************************************)
(* C3.  When one of the four native calls of GetUriPath fails, every call  *)
(* logged after it is a cleanup call, and the call ends raising a          *)
(* StatusFailure with no value returned.  A GetUriPath that has ended has  *)
(* either returned a string and raised nothing, or raised and returned     *)
(* nothing.                                                                *)
(***************************************************************************)
C3_FailureAborts ==
    InGetUriPath =>
        /\ \A i \in DOMAIN log :
              (log[i].call \in ProtocolCalls /\ FAILED(log[i].hr)) =>
                 /\ \A j \in DOMAIN log : j > i => log[j].call \in CleanupCalls
                 /\ pc \in {"idle", "GetUriPath_122", "GetUriPath_157"}
                 /\ pc = "idle" =>
                       /\ outcome = "raised"
                       /\ err.kind = "StatusFailure"
                       /\ value = NoValue
        /\ GetUriPathEnded =>
              \/ outcome = "returned" /\ value.kind = "string" /\ err = NoErr
              \/ outcome = "raised" /\ value = NoValue /\ err # NoErr

\* Path-length retrieval failed; the release ran after it and the call raised.
C3_Witness ==
    /\ GetUriPathEnded /\ outcome = "raised"
    /\ FailedCall("GetFilePathLengthFromKey")
    /\ log[Len(log)].call = LocalRelease
    /\ Count("GetFilePathFromKey") = 0

(***************************************************************************)
(* C4.  As claimed: when a native failure made GetUriPath raise, the       *)
(* operation name carried by the error is the name of the step that failed *)
(* and of no other step of the protocol, so that the error tells loader    *)
(* retrieval, reference-key retrieval, path-length retrieval and path      *)
(* retrieval apart.                                                        *)
(***************************************************************************)
\* The protocol call whose failure made GetUriPath raise.
FailedStep == CHOOSE c \in ProtocolCalls : FailedCall(c)

RaisedStatusFailure ==
    GetUriPathEnded /\ outcome = "raised" /\ err.kind = "StatusFailure"

C4_NameIdentifiesStep ==
    RaisedStatusFailure =>
        \A c \in ProtocolCalls \ {FailedStep} : OperationName(c) # err.name

(***************************************************************************)
(* C5.  After a capability query answered E_NOINTERFACE, GetUriPath makes  *)
(* no path-length call, no path call, no allocation and no release of a    *)
(* local-file loader; it retrieves the reference key once, and when that   *)
(* succeeds it returns, without raising, the WCHARs of the key that        *)
(* precede the key's first terminator.                                     *)
(***************************************************************************)
C5_Fallback ==
    (InGetUriPath /\ Answered("QueryInterface", E_NOINTERFACE)) =>
        /\ Count("GetFilePathLengthFromKey") = 0
        /\ Count("GetFilePathFromKey") = 0
        /\ Count("new[]") = 0
        /\ Count(LocalRelease) = 0
        /\ Count("call through NULL") = 0
        /\ Count("GetReferenceKey") <= 1
        /\ pc \in {"idle", "GetUriPath_120", "GetUriPath_122"}
        /\ pc = "idle" =>
              /\ Count("GetReferenceKey") = 1
              /\ Answered("GetReferenceKey", S_OK) =>
                    LET key == loc.fontFileReferenceKey
                        n   == Len(value.str)
                    IN  /\ outcome = "returned"
                        /\ value.kind = "string"
                        /\ n < Len(key)
                        /\ key[n + 1] = 0
                        /\ \A i \in 1..n : value.str[i] = key[i] /\ key[i] # 0

\* The fallback returned the two characters of a key.
C5_Witness ==
    /\ GetUriPathEnded /\ outcome = "returned"
    /\ Answered("QueryInterface", E_NOINTERFACE)
    /\ Len(value.str) = 2
    /\ loc.fontFileReferenceKey = value.str \o <<0>>

(***************************************************************************)
(* C6.  GetUriPath returned on the local-file branch: the loader was       *)
(* obtained and every native call succeeded.                               *)
(***************************************************************************)
ReturnedLocalPath ==
    /\ GetUriPathEnded /\ outcome = "returned"
    /\ Answered("QueryInterface", S_OK)
    /\ Answered("GetFilePathFromKey", S_OK)

\* The count the path-length query of this call reported.
ReportedLength ==
    log[CHOOSE i \in DOMAIN log : log[i].call = "GetFilePathLengthFromKey"].arg

\* C6 as claimed: the returned string is non-empty and as long as the
\* path-length query reported.
C6_NonEmptyOfReportedLength ==
    ReturnedLocalPath =>
        /\ Len(value.str) >= 1
        /\ Len(value.str) = ReportedLength

\* C6 as amended: the returned string is the path the loader wrote, so its
\* length is the count the path-length query reported whenever the loader
\* reported the length of that path; it is empty when that count is 0.
C6_LengthOfLoaderPath ==
    ReturnedLocalPath =>
        /\ value.kind = "string"
        /\ value.str = nativePath
        /\ ReportedLength = Len(nativePath) => Len(value.str) = ReportedLength

\* A path of two characters was reported and returned.
C6_Witness ==
    /\ ReturnedLocalPath
    /\ ReportedLength = 2
    /\ Len(value.str) = 2

(***************************************************************************)
(* C7.  When the native analyze call fails, Analyze returns false without  *)
(* raising, the caller's container type, face type and face count keep the *)
(* values they had before the call, and the caller's status is the failing *)
(* status of the native call.                                              *)
(***************************************************************************)
C7_AnalyzeFailure ==
    (AnalyzeEnded /\ FailedCall("IDWriteFontFile::Analyze")) =>
        /\ outcome = "returned"
        /\ err = NoErr
        /\ value = BoolValue(FALSE)
        /\ out.fontFileType = before.fontFileType
        /\ out.fontFaceType = before.fontFaceType
        /\ out.numberOfFaces = before.numberOfFaces
        /\ out.hr = log[1].hr

\* A failed analysis with the caller's fields at non-default values and a
\* status that was successful before the call.
C7_Witness ==
    /\ AnalyzeEnded /\ FailedCall("IDWriteFontFile::Analyze")
    /\ before = [fontFileType |-> 1, fontFaceType |-> 1, numberOfFaces |-> 2, hr |-> S_OK]
    /\ out.hr = E_FAIL

(***************************************************************************)
(* C8.  When the native analyze call succeeds, Analyze returns, without    *)
(* raising, true exactly when the native isSupported flag is set, and the  *)
(* caller's container type, face type and face count are the native        *)
(* values; so a false return with a successful status means the native     *)
(* call succeeded and reported the file unsupported.                       *)
(***************************************************************************)
C8_AnalyzeSuccess ==
    /\ (AnalyzeEnded /\ Answered("IDWriteFontFile::Analyze", S_OK)) =>
          /\ outcome = "returned"
          /\ err = NoErr
          /\ value.kind = "bool"
          /\ value.bool <=> (loc.isSupported = 1)
          /\ out.fontFileType = loc.dwriteFontFileType
          /\ out.fontFaceType = loc.dwriteFontFaceType
          /\ out.numberOfFaces = loc.numberOfFacesDWrite
          /\ out.hr = S_OK
    /\ (AnalyzeEnded /\ outcome = "returned" /\ ~value.bool /\ ~FAILED(out.hr)) =>
          /\ Answered("IDWriteFontFile::Analyze", S_OK)
          /\ loc.isSupported = 0

\* An unrecognised format: a successful status and isSupported false.
C8_Witness ==
    /\ AnalyzeEnded /\ Answered("IDWriteFontFile::Analyze", S_OK)
    /\ loc.isSupported = 0 /\ value = BoolValue(FALSE)
    /\ out.numberOfFaces = 2 /\ before.numberOfFaces = 0

(***************************************************************************)
(* C9.  Once Dispose has cleared the reference, Analyze, GetUriPath and    *)
(* the raw-reference accessor make no native call and hand out no pointer: *)
(* they stop at their first dereference of the reference and raise.        *)
(***************************************************************************)
C9_UseAfterDispose ==
    (fontFile = "nullptr" /\ op \in {"Analyze", "GetUriPath", "DWriteFontFileNoAddRef"}) =>
        /\ log = <<>>
        /\ value = NoValue
        /\ pc \in {"idle", "Analyze_67", "GetUriPath_113"}
        /\ pc = "idle" => (outcome = "raised" /\ err = NullReference)
        /\ fontFileReleases = 1

\* Analyze was called on a disposed handle and has raised.
C9_Witness ==
    /\ fontFile = "nullptr" /\ op = "Analyze"
    /\ pc = "idle" /\ outcome = "raised"

(***************************************************************************)
(* C10.  In a GetUriPath call the path buffer is freed only after it was   *)
(* allocated and at most once; when the call has returned or raised the    *)
(* buffer was freed exactly once if it was allocated and never otherwise,  *)
(* and no buffer remains allocated.                                        *)
(***************************************************************************)
C10_BufferFreedOnce ==
    InGetUriPath =>
        /\ Count("new[]") <= 1
        /\ Count("delete[]") <= Count("new[]")
        /\ \A i \in CallsOf("delete[]") : \E j \in CallsOf("new[]") : j < i
        /\ GetUriPathEnded =>
              /\ Count("delete[]") = Count("new[]")
              /\ heap = 0

\* The buffer was allocated, path retrieval failed, the call raised.
C10_Witness ==
    /\ GetUriPathEnded /\ outcome = "raised"
    /\ Count("new[]") = 1
    /\ FailedCall("GetFilePathFromKey")
    /\ Count("delete[]") = 1

(***************************************************************************)
(* C13.  As claimed: after a capability query that failed with a status    *)
(* other than E_NOINTERFACE, GetUriPath makes no reference-key, no         *)
(* path-length and no path call, makes no call through a null local-file   *)
(* loader, and ends raising.                                               *)
(***************************************************************************)
QueryFailedOtherwise ==
    \E i \in CallsOf("QueryInterface") :
        FAILED(log[i].hr) /\ log[i].hr # E_NOINTERFACE

C13_QueryFailureAborts ==
    (InGetUriPath /\ QueryFailedOtherwise) =>
        /\ Count("GetReferenceKey") = 0
        /\ Count("GetFilePathLengthFromKey") = 0
        /\ Count("GetFilePathFromKey") = 0
        /\ Count("call through NULL") = 0
        /\ pc = "idle" /\ outcome = "raised"

(***************************************************************************)
(* C14.  For the length L that the path-length query reported: when L is   *)
(* UINT_MAX the invariant ends the process (no exception is raised) with   *)
(* no allocation and no path call made; otherwise every allocation is of   *)
(* L + 1 characters, L + 1 has not wrapped (it is above L), and the        *)
(* capacity handed to the path call is the allocated size.                 *)
(***************************************************************************)
LengthReported ==
    InGetUriPath /\ Answered("GetFilePathLengthFromKey", S_OK)

ArgOf(c) == log[CHOOSE i \in DOMAIN log : log[i].call = c].arg

C14_BufferSize ==
    LengthReported =>
        LET L == ArgOf("GetFilePathLengthFromKey")
        IN  /\ loc.sizeOfFilePath = L
            /\ L = UINT_MAX =>
                  /\ Count("new[]") = 0
                  /\ Count("GetFilePathFromKey") = 0
                  /\ pc \in {"GetUriPath_144", "dead"}
                  /\ pc = "dead" => (outcome = "failfast" /\ err = NoErr)
            /\ L # UINT_MAX => outcome # "failfast"
            /\ Count("new[]") = 1 =>
                  /\ ArgOf("new[]") = PlusOne32(L)
                  /\ ULess32(L, ArgOf("new[]"))
                  /\ loc.fontFilePath.cap = ArgOf("new[]")
            /\ Count("GetFilePathFromKey") = 1 =>
                  /\ Count("new[]") = 1
                  /\ ArgOf("GetFilePathFromKey") = ArgOf("new[]")

\* The largest accepted length: UINT_MAX - 1 was reported, UINT_MAX
\* characters were allocated and handed to the path call.
C14_Witness ==
    /\ LengthReported
    /\ ArgOf("GetFilePathLengthFromKey") = MinusOne32(UINT_MAX)
    /\ Count("GetFilePathFromKey") = 1
    /\ ArgOf("GetFilePathFromKey") = UINT_MAX

(***************************************************************************)
(* C15.  The member _fontFile is non-null with the native font file not    *)
(* released by the wrapper, or null with it released; only a Dispose that  *)
(* finds it non-null writes it, and every step of Analyze, GetUriPath and  *)
(* the accessor leaves it and the release count as they were.              *)
(***************************************************************************)
C15_OwnedOrDisposed ==
    \/ fontFile = "wrapper" /\ fontFileReleases = 0
    \/ fontFile = "nullptr" /\ fontFileReleases = 1

C15_WrittenOnlyByDispose ==
    /\ (fontFile' # fontFile) =>
          /\ pc = "idle" /\ op' = "Dispose"
          /\ fontFile = "wrapper" /\ fontFile' = "nullptr"
    /\ (op' \in {"Analyze", "GetUriPath", "DWriteFontFileNoAddRef"}) =>
          UNCHANGED <<fontFile, fontFileReleases>>

C15_ReferenceInvariant ==
    []C15_OwnedOrDisposed /\ [][C15_WrittenOnlyByDispose]_vars

\* GetUriPath left by an error, Analyze and the accessor all ran before:
\* the reference is still the one stored at construction.
C15_Witness ==
    /\ GetUriPathEnded /\ outcome = "raised" /\ err.kind = "StatusFailure"
    /\ fontFile = "wrapper" /\ fontFileReleases = 0
    /\ loaderRefs = MaxLoaderRefs

(***************************************************************************)
(* C17.  As claimed: when GetUriPath has returned or raised, every native  *)
(* reference it acquired has been released: none is held on the loader of  *)
(* GetLoader and none on the local-file loader.                            *)
(***************************************************************************)
C17_ReferencesBalanced ==
    GetUriPathEnded => (loaderRefs = 0 /\ localRefs = 0)

(***************************************************************************)
(* C18.  The interface identifier of the local-file loader is written once *)
(* by the static constructor, before any operation of a handle, and never  *)
(* afterwards: in every state it holds the value of line 20 and has not    *)
(* been freed, no step changes it, and every capability query in the log   *)
(* passed that value.                                                      *)
(***************************************************************************)
C18_GuidAsInitialised ==
    /\ guid.inits = 1
    /\ guid.value = IID_IDWriteLocalFontFileLoader
    /\ ~guid.freed
    /\ \A i \in CallsOf("QueryInterface") :
          log[i].arg = IID_IDWriteLocalFontFileLoader

C18_GuidConstant == []C18_GuidAsInitialised /\ [][guid' = guid]_vars

\* The capability query of a second GetUriPath on the handle has been made.
C18_Witness ==
    /\ InGetUriPath /\ loaderRefs = MaxLoaderRefs
    /\ Count("QueryInterface") = 1
    /\ log[Len(log)].call = "QueryInterface"
    /\ log[Len(log)].arg = guid.value

(***************************************************************************)
(* C19.  One application of ReleaseInterface to a slot holding a non-null  *)
(* reference makes one Release call and leaves the slot null; applied to a *)
(* null slot or to no slot it makes no call and changes neither the slot   *)
(* nor the object.  Hence between two writes of the slot by its caller the *)
(* object is released at most once, however often the function is applied. *)
(***************************************************************************)
C19_Application ==
    (ri'.applied = ri.applied + 1) =>
        IF ri.pp = "slot" /\ ri.target # "NULL"
        THEN /\ ri'.releases = ri.releases + 1
             /\ ri'.refs = ri.refs - 1
             /\ ri'.target = "NULL"
        ELSE /\ ri'.releases = ri.releases
             /\ ri'.refs = ri.refs
             /\ ri'.target = ri.target

C19_ReleasedOncePerStore ==
    /\ ri.run <= 1
    /\ ri.refs >= 0
    /\ (ri.run = 1) => (ri.target = "NULL")

C19_ReleaseInterface == []C19_ReleasedOncePerStore /\ [][C19_Application]_vars

\* Applied twice in a row to a slot that held a reference: one release.
C19_Witness ==
    /\ ri.pp = "slot" /\ ri.applied = 2
    /\ ri.run = 1 /\ ri.releases = 1 /\ ri.target = "NULL"

(***************************************************************************)
(* C11.  As claimed, under a collector: every native call made through the *)
(* font file was issued on a reference that had not been released, and the *)
(* steps that use the bytes of the reference key (the read that builds the *)
(* fallback string, the path-length call and the path call that are handed *)
(* the key) are taken only while the font file the key belongs to has not  *)
(* been reclaimed.                                                         *)
(***************************************************************************)
C11_CallsOnLiveReference ==
    \A i \in DOMAIN log : log[i].call \in FontFileCalls => log[i].arg = 0

\* The step about to be taken uses the key: line 123, or the call of line
\* 137 or of line 148 on a local-file loader.
UsesKey ==
    \/ pc = "GetUriPath_122" /\ ~FAILED(loc.hr)
    \/ pc = "GetUriPath_137" /\ loc.localFontFileLoader # "NULL"
    \/ pc = "GetUriPath_148"

C11_KeyReadStep ==
    (UsesKey /\ pc' # pc) => ~collected

C11_NoUseAfterReclaim ==
    []C11_CallsOnLiveReference /\ [][C11_KeyReadStep]_vars

(***************************************************************************)
(* C16.  With a second thread allowed to run Dispose while Analyze or      *)
(* GetUriPath is in flight on the same handle, a native call through a     *)
(* font-file reference that Dispose has released happens only in runs      *)
(* where such a Dispose did interleave; runs in which every operation      *)
(* starts after the previous one ended make no such call.  The witness     *)
(* shows that the interleaved runs do make it.                             *)
(***************************************************************************)
C16_UseAfterReleaseNeedsRace ==
    /\ UseAfterRelease => race.raced
    /\ (op = "Analyze" /\ outcome = "crash") => race.raced

\* Analyze read the pointer, the other thread disposed the handle, and the
\* native Analyze was then called through the released pointer.
C16_Witness ==
    /\ op = "Analyze" /\ pc = "Analyze_74"
    /\ fontFile = "nullptr" /\ fontFileReleases = 1
    /\ log[Len(log)].call = "IDWriteFontFile::Analyze"
    /\ log[Len(log)].arg = 1
    /\ race.raced

(***************************************************************************)
(* C12.  Two handles on different font files, their Analyze calls          *)
(* interleaved in every way: a call in flight holds the answer of its own  *)
(* file, a call that has ended left the outputs, the status and the return *)
(* value it produces when its three steps run with nothing in between, and *)
(* a step of one handle changes nothing of the other handle.               *)
(***************************************************************************)
\* The call of handle h run alone from the caller's variables as they were.
AnalyzeAlone(h) ==
    AnalyzeExit(AnalyzeNative(AnalyzeEnter([h EXCEPT !.out = h.before])))

C12_AsWhenAlone ==
    \A i \in DOMAIN two :
        /\ two[i].pc = "Analyze_74" =>
              two[i] = AnalyzeNative(AnalyzeEnter([two[i] EXCEPT !.out = two[i].before]))
        /\ two[i].ended =>
              /\ two[i].out = AnalyzeAlone(two[i]).out
              /\ two[i].value = AnalyzeAlone(two[i]).value
              /\ two[i].out.hr = two[i].file.hr

C12_OwnStateOnly ==
    \A i \in DOMAIN two : \A j \in DOMAIN two :
        (i # j /\ two'[i] # two[i]) => two'[j] = two[j]

C12_NoInterference == []C12_AsWhenAlone /\ [][C12_OwnStateOnly]_vars

\* The first handle's call has returned its file's data while the second
\* handle's call, on a failing file, is between its native call and its
\* return.
C12_Witness ==
    /\ two # <<>>
    /\ two[1].ended /\ two[1].value = BoolValue(TRUE)
    /\ two[1].out.numberOfFaces = MaxFaces
    /\ two[2].pc = "Analyze_74" /\ FAILED(two[2].out.hr)

=============================================================================
